---- MODULE Spec2Model ----
(***************************************************************************)
(* The CTAP HID command dispatcher (MainHid), its wink permission, the     *)
(* Tock clock it is timed with and the user-presence keepalive wait that   *)
(* runs under a native-bridge (Cbor) command.                               *)
(***************************************************************************)
EXTENDS Integers, Sequences, FiniteSets, TLC

(***************************************************************************)
(* Bounds of the model.                                                    *)
(***************************************************************************)
\* calls of process_message and process_hid_packet in one behaviour
MaxCalls == 2
\* advances of the hardware tick counter in one behaviour
MaxTicks == 2
\* total touch timeout in ms (crate::ctap::TOUCH_TIMEOUT_MS, configured outside
\* these files); with KEEPALIVE_DELAY_MS = 100 it gives the iteration bound
TOUCH_TIMEOUT_MS == 200
\* number of LEDs the board reports (led::count())
LedCount == 2
\* advances of the counter while a timer of the clock is observed
MaxAdvances == 3
\* calls of wait_with_timeout, and Cbor commands, while the environment is observed
MaxWaits == 2
\* calls of take_storage that run the storage's constructor
MaxTakes == 2
\* packets handed to process_hid_packet in one behaviour of the packet specification
MaxPackets == 3
\* advances of the tick counter in one behaviour of the grant specification
MaxGrantTicks == 3

(***************************************************************************)
(* Program constants.                                                      *)
(***************************************************************************)
WINK_TIMEOUT_DURATION == 5000
KEEPALIVE_DELAY_MS == 100
TIMEOUT_ITERATIONS == TOUCH_TIMEOUT_MS \div KEEPALIVE_DELAY_MS
\* 0xffffff + 1: the tick counter is 24 bits wide
TickRange == 16777216
\* 0x800000: half the counter range
HalfRange == 8388608
\* (usize::MAX - 1) / 2 of the 32-bit target: usize::MAX = 2 * HalfUsizeMax + 1
HalfUsizeMax == 2147483647
HID_PACKET_SIZE == 64

\* CTAP HID opcodes (CtapHidCommand)
CMD_PING == 1
CMD_MSG == 3
CMD_LOCK == 4
CMD_INIT == 6
CMD_WINK == 8
CMD_CBOR == 16
CMD_CANCEL == 17
CMD_KEEPALIVE == 59
CMD_ERROR == 63
CMD_VENDOR_FIRST == 64

\* CTAP HID error bytes (CtapHidError)
ERR_INVALID_CMD == 1
ERR_INVALID_LEN == 3
ERR_INVALID_SEQ == 4
ERR_CHANNEL_BUSY == 6

\* keepalive status byte (KeepaliveStatus::UpNeeded)
STATUS_UPNEEDED == 2

\* CTAP1 status words (Ctap1StatusCode)
SW_SUCCESS == 36864
SW_COND_USE_NOT_SATISFIED == 27013
SW_WRONG_LENGTH == 26368

\* CTAP2 status bytes (Ctap2StatusCode)
CTAP2_OK == 0
CTAP2_ERR_KEEPALIVE_CANCEL == 45
CTAP2_ERR_USER_ACTION_TIMEOUT == 47

\* largest payload the reassembler accepts: 57 + 128 * 59
MAX_MESSAGE_SIZE == 7609

None == <<>>
Some(x) == <<x>>
IsSome(o) == o # None
Unwrap(o) == o[1]

Min(a, b) == IF a < b THEN a ELSE b

(***************************************************************************)
(* Clock: src/env/tock/mod.rs                                              *)
(***************************************************************************)
\* usize::wrapping_add / wrapping_sub followed by & 0xffffff: the word wraps at
\* a multiple of 2^24, so the masked result is the sum or difference modulo 2^24
\* wrapping_add_u24 without the mask
wrapping_add_u24_unmasked(lhs, rhs) == lhs + rhs

wrapping_add_u24(lhs, rhs) == (lhs + rhs) % TickRange

wrapping_sub_u24(lhs, rhs) == (lhs - rhs) % TickRange

\* usize::MAX / b, for b >= 2
UsizeMaxDiv(b) == 2 * (HalfUsizeMax \div b) + ((2 * (HalfUsizeMax % b) + 1) \div b)

\* a.checked_mul(b) is None: the product does not fit in usize
checked_mul_overflows(a, b) == b >= 2 /\ a > UsizeMaxDiv(b)

\* (clock_frequency / 2).checked_mul(milliseconds).unwrap() / 500, for a product
\* that fits in usize; the quotient is taken by parts so that no intermediate
\* value leaves the range of the model's integers
delta_tick(clock_frequency, milliseconds) ==
  LET half == clock_frequency \div 2
  IN  (half \div 500) * milliseconds + ((half % 500) * milliseconds) \div 500

\* make_timer without the assertion of line 514
make_timer_panics_on_overflow_only(clock_frequency, milliseconds) ==
  checked_mul_overflows(clock_frequency \div 2, milliseconds)

\* make_timer halts instead of returning: the checked multiplication overflows
\* usize, or the assert on delta_tick fails
make_timer_panics(clock_frequency, milliseconds) ==
  \/ checked_mul_overflows(clock_frequency \div 2, milliseconds)
  \/ ~(delta_tick(clock_frequency, milliseconds) < HalfRange)

make_timer(clock_frequency, start_tick, milliseconds) ==
  [end_tick |-> wrapping_add_u24(start_tick, delta_tick(clock_frequency, milliseconds))]

\* check_timer comparing the ticks without the wrap
check_timer_unwrapped(timer, cur_tick) ==
  IF timer.end_tick >= cur_tick THEN None ELSE Some(timer)

\* None while end_tick - cur_tick (mod 2^24) is below 2^23, Some(timer) after
check_timer(timer, cur_tick) ==
  IF wrapping_sub_u24(timer.end_tick, cur_tick) < HalfRange
  THEN None
  ELSE Some(timer)

(***************************************************************************)
(* Messages and the packet codec (crate::ctap::hid): 64-byte packets,      *)
(* bytes 0-3 the channel, byte 4 = 0x80 | opcode (initialization) or the   *)
(* sequence number (continuation), bytes 5-6 the big-endian length of an   *)
(* initialization packet, then payload, zero padded.                      *)
(***************************************************************************)
Message(cid, cmd, payload) == [cid |-> cid, cmd |-> cmd, payload |-> payload]

\* CtapHid::error_message: one error byte under the error opcode
error_message(cid, error_code) == Message(cid, CMD_ERROR, <<error_code>>)

Zeros(n) == [i \in 1..n |-> 0]

Pad(bytes, n) == bytes \o Zeros(n - Len(bytes))

InitPacket(cid, cmd, len, data) ==
  Pad(cid \o <<128 + cmd, len \div 256, len % 256>> \o data, HID_PACKET_SIZE)

ContinuationPacket(cid, seq, data) ==
  Pad(cid \o <<seq>> \o data, HID_PACKET_SIZE)

\* CtapHid::process_single_packet: the channel and the packet's kind
process_single_packet(packet) ==
  IF packet[5] >= 128
  THEN [cid |-> SubSeq(packet, 1, 4), init |-> TRUE, cmd |-> packet[5] - 128, seq |-> 0,
        len |-> packet[6] * 256 + packet[7], data |-> SubSeq(packet, 8, HID_PACKET_SIZE)]
  ELSE [cid |-> SubSeq(packet, 1, 4), init |-> FALSE, cmd |-> 0, seq |-> packet[5],
        len |-> 0, data |-> SubSeq(packet, 6, HID_PACKET_SIZE)]

\* the reassembler's single reception slot
HidIdle == [receiving |-> FALSE, cid |-> <<>>, cmd |-> 0, len |-> 0, data |-> <<>>, seq |-> 0]

\* a completed message as the framing layer hands it on: Cancel gets no reply
preprocess_message(message) ==
  IF message.cmd = CMD_CANCEL THEN None ELSE Some(message)

\* CtapHid::parse_packet: the new reception slot and the message to dispatch, if any
parse_packet(state, packet) ==
  LET p == process_single_packet(packet)
  IN  IF ~state.receiving
      THEN IF ~p.init
           THEN [hid |-> HidIdle, message |-> None]
           ELSE IF p.len > MAX_MESSAGE_SIZE
           THEN [hid |-> HidIdle, message |-> Some(error_message(p.cid, ERR_INVALID_LEN))]
           ELSE IF p.len <= Len(p.data)
           THEN [hid |-> HidIdle,
                 message |-> preprocess_message(Message(p.cid, p.cmd, SubSeq(p.data, 1, p.len)))]
           ELSE [hid |-> [receiving |-> TRUE, cid |-> p.cid, cmd |-> p.cmd, len |-> p.len,
                          data |-> p.data, seq |-> 0],
                 message |-> None]
      ELSE IF p.cid # state.cid
           THEN [hid |-> state, message |-> Some(error_message(p.cid, ERR_CHANNEL_BUSY))]
           ELSE IF p.init \/ p.seq # state.seq
           THEN [hid |-> HidIdle, message |-> Some(error_message(p.cid, ERR_INVALID_SEQ))]
           ELSE LET data == state.data \o p.data
                IN  IF Len(data) >= state.len
                    THEN [hid |-> HidIdle,
                          message |-> preprocess_message(
                              Message(state.cid, state.cmd, SubSeq(data, 1, state.len)))]
                    ELSE [hid |-> [state EXCEPT !.data = data, !.seq = state.seq + 1],
                          message |-> None]

RECURSIVE continuation_packets(_, _, _)
continuation_packets(cid, seq, rest) ==
  IF rest = <<>> THEN <<>>
  ELSE LET n == Min(Len(rest), HID_PACKET_SIZE - 5)
       IN  <<ContinuationPacket(cid, seq, SubSeq(rest, 1, n))>>
             \o continuation_packets(cid, seq + 1, SubSeq(rest, n + 1, Len(rest)))

\* CtapHid::split_message: one initialization packet, then continuation packets
split_message(message) ==
  LET n == Min(Len(message.payload), HID_PACKET_SIZE - 7)
  IN  <<InitPacket(message.cid, message.cmd, Len(message.payload), SubSeq(message.payload, 1, n))>>
        \o continuation_packets(message.cid, 0,
                                SubSeq(message.payload, n + 1, Len(message.payload)))

(***************************************************************************)
(* CTAP1 responses: src/ctap/main_hid.rs                                   *)
(***************************************************************************)
\* u16::to_le_bytes
to_le_bytes(code) == <<code % 256, code \div 256>>

\* u16::to_be_bytes
to_be_bytes(code) == <<code \div 256, code % 256>>

ctap1_error_message(cid, error_code) == Message(cid, CMD_MSG, to_be_bytes(error_code))

ctap1_success_message(cid, payload) == Message(cid, CMD_MSG, payload \o to_be_bytes(SW_SUCCESS))

(***************************************************************************)
(* Inputs.                                                                 *)
(***************************************************************************)
CidA == <<0, 0, 0, 1>>
CidB == <<0, 0, 0, 2>>
Cids == {CidA, CidB}

Commands == {CMD_PING, CMD_MSG, CMD_LOCK, CMD_INIT, CMD_WINK, CMD_CBOR, CMD_CANCEL,
             CMD_KEEPALIVE, CMD_ERROR, CMD_VENDOR_FIRST}

\* opcodes the framing layer has already resolved when process_message sees them
TransportCommands == {CMD_PING, CMD_INIT, CMD_CANCEL, CMD_LOCK, CMD_KEEPALIVE, CMD_ERROR}

\* messages process_message is called with directly
Messages ==
  {Message(CidA, cmd, <<>>) : cmd \in Commands}
  \cup {Message(CidA, cmd, <<153, 153>>) : cmd \in {CMD_PING, CMD_MSG, CMD_WINK, CMD_ERROR}}
  \cup {Message(CidB, cmd, <<1>>) : cmd \in {CMD_WINK, CMD_VENDOR_FIRST}}

\* a payload too long for one initialization packet (57 bytes)
LongPayload == [i \in 1..58 |-> 7]

\* packets process_hid_packet is called with
Packets ==
  {InitPacket(CidA, CMD_PING, 2, <<153, 153>>),
   InitPacket(CidA, CMD_CANCEL, 0, <<>>),
   InitPacket(CidA, CMD_WINK, 0, <<>>),
   InitPacket(CidA, CMD_WINK, 1, <<1>>),
   InitPacket(CidA, CMD_CBOR, 1, <<1>>),
   InitPacket(CidA, CMD_MSG, 1, <<1>>),
   InitPacket(CidA, CMD_VENDOR_FIRST, 0, <<>>),
   InitPacket(CidA, CMD_PING, 65535, <<1>>),
   InitPacket(CidA, CMD_PING, 58, SubSeq(LongPayload, 1, 57)),
   ContinuationPacket(CidA, 0, <<7>>),
   ContinuationPacket(CidA, 1, <<7>>),
   InitPacket(CidB, CMD_CBOR, 1, <<1>>)}

\* what the legacy bridge (ctap1::Ctap1Command::process_command) can return
Ctap1Results ==
  {[ok |-> TRUE, bytes |-> <<>>, code |-> SW_SUCCESS],
   [ok |-> TRUE, bytes |-> <<5, 4>>, code |-> SW_SUCCESS],
   [ok |-> FALSE, bytes |-> <<>>, code |-> SW_COND_USE_NOT_SATISFIED],
   [ok |-> FALSE, bytes |-> <<>>, code |-> SW_WRONG_LENGTH]}

\* what the command processor (CtapState::process_command) returns, given the
\* outcome of the user-presence check it made ("None" when it made none)
ProcessorResponses(up_result) ==
  CASE up_result = "Cancelled" -> {<<CTAP2_ERR_KEEPALIVE_CANCEL>>}
    [] up_result = "Timeout" -> {<<CTAP2_ERR_USER_ACTION_TIMEOUT>>}
    [] OTHER -> {<<CTAP2_OK>>, <<CTAP2_OK, 161>>}

NoPacket == <<>>

\* outcomes of usb_ctap_hid::send_or_recv_with_timeout while a keepalive is sent
SendStatuses(cid) ==
  {[kind |-> "Timeout", endpoint |-> "MainHid", packet |-> NoPacket],
   [kind |-> "Sent", endpoint |-> "MainHid", packet |-> NoPacket]}
  \cup {[kind |-> "Received", endpoint |-> "MainHid", packet |-> p] :
          p \in {InitPacket(cid, CMD_CANCEL, 0, <<>>),
                 InitPacket(IF cid = CidA THEN CidB ELSE CidA, CMD_CANCEL, 0, <<>>),
                 InitPacket(cid, CMD_PING, 1, <<1>>),
                 ContinuationPacket(cid, CMD_CANCEL, <<>>)}}
  \cup {[kind |-> "Received", endpoint |-> "VendorHid",
          packet |-> InitPacket(cid, CMD_CANCEL, 0, <<>>)]}

\* clock frequencies (Hz) the alarm driver reports
ClockFrequencies == {32768}

\* ticks the counter advances by in one step: one tick, or the wink duration
TickSteps(frequency) == {1, delta_tick(frequency, WINK_TIMEOUT_DURATION)}

\* the counter starts one tick before it wraps to 0
StartTicks == {TickRange - 1}

(***************************************************************************)
(* State.                                                                  *)
(***************************************************************************)
VARIABLES
  now,                \* the hardware tick counter (GET_CLOCK_VALUE)
  clock_frequency,    \* GET_CLOCK_FREQUENCY
  with_ctap1,         \* the with_ctap1 feature
  wink_permission,    \* MainHid.wink_permission: None or Some(timer)
  hid,                \* MainHid.hid: the reassembler's reception slot
  pc,                 \* "idle", "up_notify", "up_wait", "up_send", "halted"
  up,                 \* locals of check_user_presence, what it returned, keepalives sent
  buttons_enabled,    \* button listeners enabled
  leds,               \* LEDs that are on
  request,            \* the call in progress or just returned: [message, via, packet]
  invoked,            \* that call reached process_message
  grant_before,       \* the wink grant when that call was made: "none", "live", "expired"
  bridge,             \* what the legacy bridge or the command processor returned to it
  last_status,        \* outcome of its last send_or_recv_with_timeout
  response,           \* the message process_message returned, once it has
  out_packets,        \* the packets process_hid_packet returned
  n_calls,            \* calls of process_message and process_hid_packet
  n_ticks,            \* advances of the counter
  since_grant,        \* ticks truly elapsed since the wink permission was last granted
  TAKEN,              \* take_storage's static flag
  storage,            \* how the calls of take_storage ended, in order: "ok", "err", "halted"
  env,                \* a TockEnv has been constructed
  held_timer,         \* the TockTimer a caller of the clock holds: None or Some(timer)
  timed,              \* the last make_timer call: its start tick, duration, true elapsed ticks
  checked,            \* the last check_timer call: what it was given and what it returned
  blink_pattern,      \* TockEnv.blink_pattern
  presence,           \* the last call of the UserPresence trait: "none", "init", "complete",
                      \* or what wait_with_timeout returned: "Ok", "Timeout"
  waited              \* the last wait_with_timeout: its argument and its two cells

vars == <<now, clock_frequency, with_ctap1, wink_permission, hid, pc, up, buttons_enabled,
          leds, request, invoked, grant_before, bridge, last_status, response, out_packets,
          n_calls, n_ticks, since_grant, TAKEN, storage, env, held_timer, timed, checked,
          blink_pattern, presence, waited>>

\* the state of the Tock environment that MainHid never touches
tockVars == <<TAKEN, storage, env, held_timer, timed, checked, blink_pattern, presence,
              waited>>

\* the platform's configuration and the environment's own state
envVars == <<clock_frequency, with_ctap1, tockVars>>

\* the state of MainHid and of the call in progress
hidVars == <<with_ctap1, wink_permission, hid, up, request, invoked, grant_before, bridge,
             last_status, response, out_packets, n_calls, since_grant>>

\* the state of MainHid that outlives a call
callVars == <<with_ctap1, wink_permission, hid, n_calls, since_grant>>

NoTimed == [made |-> FALSE, start_tick |-> 0, milliseconds |-> 0, elapsed |-> 0]

\* no call of wait_with_timeout to speak of
NoWait == [called |-> FALSE, timeout |-> 0, button_touched |-> FALSE,
           keepalive_expired |-> FALSE]

NoMessage == Message(<<>>, 0, <<>>)
NoRequest == [message |-> NoMessage, via |-> "none", packet |-> NoPacket]
NoBridge == [ok |-> TRUE, bytes |-> <<>>, code |-> 0]
UpIdle == [i |-> 0, button_touched |-> FALSE, keepalive_expired |-> FALSE,
           keepalive_response |-> "Ok", result |-> "none", keepalives |-> 0]
NoStatus == [kind |-> "None", endpoint |-> "MainHid", packet |-> NoPacket]

Leds == 0..(LedCount - 1)

(***************************************************************************)
(* LEDs: src/env/tock/mod.rs                                               *)
(***************************************************************************)
RECURSIVE count_ones(_)
count_ones(n) == IF n = 0 THEN 0 ELSE (n % 2) + count_ones(n \div 2)

RECURSIVE BitXor(_, _)
BitXor(a, b) ==
  IF a = 0 /\ b = 0 THEN 0
  ELSE ((a + b) % 2) + 2 * BitXor(a \div 2, b \div 2)

\* the LEDs blink_leds(pattern_seed) leaves on
blink_leds(pattern_seed) == {l \in Leds : count_ones(BitXor(pattern_seed, l)) % 2 # 0}

\* the LEDs left as they are
switch_off_leds_skipped == leds

switch_off_leds == {}

(***************************************************************************)
(* The wink permission: src/ctap/main_hid.rs                               *)
(***************************************************************************)
\* LibtockAlarmTimer::start: a timer of the clock, made at the current tick
LibtockAlarmTimer_start(milliseconds) == make_timer(clock_frequency, now, milliseconds)

\* LibtockAlarmTimer::has_elapsed: the clock's test on the timer at the current tick
has_elapsed(timer) == check_timer(timer, now)

should_wink == IsSome(wink_permission) /\ IsSome(has_elapsed(Unwrap(wink_permission)))

(***************************************************************************)
(* process_message, arm by arm: src/ctap/main_hid.rs                       *)
(***************************************************************************)
\* the Msg arm, given what the legacy bridge returned
msg_arm(message, result) ==
  IF ~with_ctap1
  THEN error_message(message.cid, ERR_INVALID_CMD)
  ELSE IF result.ok
       THEN ctap1_success_message(message.cid, result.bytes)
       ELSE ctap1_error_message(message.cid, result.code)

\* the Cbor arm's response, given what the command processor returned
cbor_arm(message, processor_response) == Message(message.cid, CMD_CBOR, processor_response)

\* the Wink arm with the revocation of line 79 missing on the error path
wink_arm_keeps_grant(message) ==
  IF message.payload = <<>>
  THEN [permission |-> Some(LibtockAlarmTimer_start(WINK_TIMEOUT_DURATION)),
        response |-> message]
  ELSE [permission |-> wink_permission,
        response |-> error_message(message.cid, ERR_INVALID_LEN)]

\* the Wink arm with the length test missing: any payload grants
wink_arm_grants_any_length(message) ==
  [permission |-> Some(LibtockAlarmTimer_start(WINK_TIMEOUT_DURATION)),
   response |-> message]

\* the Wink arm: the permission it leaves (line 79 has cleared it) and the response
wink_arm(message) ==
  IF message.payload = <<>>
  THEN [permission |-> Some(LibtockAlarmTimer_start(WINK_TIMEOUT_DURATION)),
        response |-> message]
  ELSE [permission |-> None,
        response |-> error_message(message.cid, ERR_INVALID_LEN)]

\* the default arm answering InvalidCmd to a vendor opcode
default_arm_rejects_vendor(message) ==
  IF message.cmd >= CMD_VENDOR_FIRST
  THEN error_message(message.cid, ERR_INVALID_CMD)
  ELSE message

\* the default arm rebuilding the message without its payload
default_arm_drops_payload(message) == Message(message.cid, message.cmd, <<>>)

\* the default arm
default_arm(message) == message

\* an iterator over one empty packet instead of none
HidPacketIterator_one_empty == <<Zeros(HID_PACKET_SIZE)>>

\* HidPacketIterator::none()
HidPacketIterator_none == <<>>

\* the wink duration in ticks: milliseconds at the clock's frequency
WinkTicks == (WINK_TIMEOUT_DURATION * clock_frequency) \div 1000

\* the grant as the true elapsed time has it
GrantState ==
  IF wink_permission = None THEN "none"
  ELSE IF since_grant <= WinkTicks THEN "live"
  ELSE "expired"

\* the caller has consumed what the last call returned
Forget ==
  IF pc = "idle"
  THEN /\ request' = NoRequest
       /\ invoked' = FALSE
       /\ grant_before' = "none"
       /\ bridge' = NoBridge
       /\ last_status' = NoStatus
       /\ response' = None
       /\ out_packets' = <<>>
       /\ up' = UpIdle
  ELSE UNCHANGED <<request, invoked, grant_before, bridge, last_status, response,
                   out_packets, up>>

\* a call of process_message returns `resp`
Return(via, resp) ==
  /\ response' = Some(resp)
  /\ out_packets' = IF via = "packet" THEN split_message(resp) ELSE <<>>
  /\ pc' = "idle"

\* nothing has been returned yet
NotReturned ==
  /\ response' = None
  /\ out_packets' = <<>>

\* line 79 missing
Revoke_skipped == UNCHANGED <<wink_permission, since_grant>>

\* line 79
Revoke ==
  /\ wink_permission' = None
  /\ since_grant' = 0

MsgArm(message, via) ==
  /\ message.cmd = CMD_MSG
  /\ Revoke
  /\ IF with_ctap1
     THEN \E result \in Ctap1Results :
            /\ bridge' = result
            /\ Return(via, msg_arm(message, result))
     ELSE /\ bridge' = NoBridge
          /\ Return(via, msg_arm(message, NoBridge))
  /\ up' = UpIdle
  /\ UNCHANGED <<buttons_enabled, leds>>

\* the command processor answers at once, or first checks user presence
CborArm(message, via) ==
  /\ message.cmd = CMD_CBOR
  /\ Revoke
  /\ \/ \E bytes \in ProcessorResponses("None") :
          /\ bridge' = [NoBridge EXCEPT !.bytes = bytes]
          /\ Return(via, cbor_arm(message, bytes))
     \/ /\ pc' = "up_notify"
        /\ bridge' = NoBridge
        /\ NotReturned
  /\ up' = UpIdle
  /\ UNCHANGED <<buttons_enabled, leds>>

WinkArm(message, via) ==
  /\ message.cmd = CMD_WINK
  /\ IF message.payload = <<>> /\ make_timer_panics(clock_frequency, WINK_TIMEOUT_DURATION)
     THEN /\ Revoke
          /\ pc' = "halted"
          /\ NotReturned
     ELSE /\ wink_permission' = wink_arm(message).permission
          /\ since_grant' = 0
          /\ Return(via, wink_arm(message).response)
  /\ bridge' = NoBridge
  /\ up' = UpIdle
  /\ UNCHANGED <<buttons_enabled, leds>>

DefaultArm(message, via) ==
  /\ message.cmd \notin {CMD_MSG, CMD_CBOR, CMD_WINK}
  /\ Revoke
  /\ Return(via, default_arm(message))
  /\ bridge' = NoBridge
  /\ up' = UpIdle
  /\ UNCHANGED <<buttons_enabled, leds>>

process_message(message, via) ==
  /\ invoked' = TRUE
  /\ last_status' = NoStatus
  /\ \/ MsgArm(message, via)
     \/ CborArm(message, via)
     \/ WinkArm(message, via)
     \/ DefaultArm(message, via)

(***************************************************************************)
(* Operations of MainHid.                                                  *)
(***************************************************************************)
\* process_message called with a message
ProcessMessage ==
  /\ pc = "idle"
  /\ n_calls < MaxCalls
  /\ n_calls' = n_calls + 1
  /\ grant_before' = GrantState
  /\ \E message \in Messages :
       /\ request' = [message |-> message, via |-> "message", packet |-> NoPacket]
       /\ process_message(message, "message")
  /\ UNCHANGED <<now, envVars, hid, n_ticks>>

\* process_hid_packet dispatching the message but dropping the reply's packets
process_hid_packet_without_reply(packet) ==
  LET parsed == parse_packet(hid, packet)
  IN  /\ hid' = parsed.hid
      /\ IF IsSome(parsed.message)
         THEN /\ request' = [message |-> Unwrap(parsed.message), via |-> "packet",
                             packet |-> packet]
              /\ process_message(Unwrap(parsed.message), "message")
         ELSE /\ request' = [message |-> NoMessage, via |-> "packet", packet |-> packet]
              /\ out_packets' = HidPacketIterator_none
              /\ invoked' = FALSE
              /\ response' = None
              /\ bridge' = NoBridge
              /\ last_status' = NoStatus
              /\ up' = UpIdle
              /\ UNCHANGED <<wink_permission, since_grant, pc, buttons_enabled, leds>>

\* process_hid_packet: parse the packet, dispatch a completed message, split the reply
process_hid_packet(packet) ==
  LET parsed == parse_packet(hid, packet)
  IN  /\ hid' = parsed.hid
      /\ IF IsSome(parsed.message)
         THEN /\ request' = [message |-> Unwrap(parsed.message), via |-> "packet",
                             packet |-> packet]
              /\ process_message(Unwrap(parsed.message), "packet")
         ELSE /\ request' = [message |-> NoMessage, via |-> "packet", packet |-> packet]
              /\ out_packets' = HidPacketIterator_none
              /\ invoked' = FALSE
              /\ response' = None
              /\ bridge' = NoBridge
              /\ last_status' = NoStatus
              /\ up' = UpIdle
              /\ UNCHANGED <<wink_permission, since_grant, pc, buttons_enabled, leds>>

\* process_hid_packet called with a packet
ProcessHidPacket ==
  /\ pc = "idle"
  /\ n_calls < MaxCalls
  /\ n_calls' = n_calls + 1
  /\ grant_before' = GrantState
  /\ \E packet \in Packets : process_hid_packet(packet)
  /\ UNCHANGED <<now, envVars, n_ticks>>

\* update_wink_timeout
UpdateWinkTimeout ==
  /\ pc = "idle"
  /\ IF make_timer_panics(clock_frequency, WINK_TIMEOUT_DURATION)
     THEN /\ pc' = "halted"
          /\ UNCHANGED <<wink_permission, since_grant>>
     ELSE /\ wink_permission' = Some(LibtockAlarmTimer_start(WINK_TIMEOUT_DURATION))
          /\ since_grant' = 0
          /\ pc' = pc
  /\ Forget
  /\ UNCHANGED <<now, envVars, hid, buttons_enabled, leds, n_calls, n_ticks>>

\* the hardware counter advances
Tick ==
  /\ n_ticks < MaxTicks
  /\ \E d \in TickSteps(clock_frequency) :
       /\ now' = (now + d) % TickRange
       /\ since_grant' = IF IsSome(wink_permission) THEN since_grant + d ELSE 0
  /\ n_ticks' = n_ticks + 1
  /\ Forget
  /\ UNCHANGED <<envVars, wink_permission, hid, pc, buttons_enabled, leds, n_calls>>

(***************************************************************************)
(* The user-presence wait: src/env/tock/mod.rs                             *)
(***************************************************************************)
\* CtapHid::keepalive(cid, UpNeeded), as packets
keepalive_msg(cid) == split_message(Message(cid, CMD_KEEPALIVE, <<STATUS_UPNEEDED>>))

\* send_keepalive_up_needed without the test of line 302
send_keepalive_any_channel(endpoint, cid, status) ==
  IF status.kind = "Received"
  THEN LET processed_packet == process_single_packet(status.packet)
       IN  IF processed_packet.init /\ processed_packet.cmd = CMD_CANCEL
           THEN "Cancelled"
           ELSE "Ok"
  ELSE "Ok"

\* send_keepalive_up_needed without the Cancel test of line 312
send_keepalive_ignores_cancel(endpoint, cid, status) == "Ok"

\* send_keepalive_up_needed cancelling on any initialization packet of the channel
send_keepalive_cancel_on_any_init(endpoint, cid, status) ==
  IF status.kind = "Received"
  THEN LET processed_packet == process_single_packet(status.packet)
       IN  IF status.endpoint # endpoint \/ processed_packet.cid # cid
           THEN "Ok"
           ELSE IF processed_packet.init THEN "Cancelled" ELSE "Ok"
  ELSE "Ok"

\* send_keepalive_up_needed, given how the transmission of the one keepalive
\* packet ended: "Ok", or "Cancelled" for Err(CTAP2_ERR_KEEPALIVE_CANCEL)
send_keepalive_up_needed(endpoint, cid, status) ==
  IF status.kind = "Received"
  THEN LET processed_packet == process_single_packet(status.packet)
       IN  IF status.endpoint # endpoint \/ processed_packet.cid # cid
           THEN "Ok"
           ELSE IF processed_packet.init /\ processed_packet.cmd = CMD_CANCEL
                THEN "Cancelled"
                ELSE "Ok"
  ELSE "Ok"

\* the result with the touch tested first
user_presence_result_touch_first(keepalive_response, button_touched) ==
  IF button_touched THEN "Ok"
  ELSE IF keepalive_response # "Ok" THEN keepalive_response
  ELSE "Timeout"

\* what check_user_presence returns after the loop
user_presence_result(keepalive_response, button_touched) ==
  IF keepalive_response # "Ok" THEN keepalive_response
  ELSE IF button_touched THEN "Ok"
  ELSE "Timeout"

\* the loop running one iteration too many
loop_continues_one_more(i) == i <= TIMEOUT_ITERATIONS

\* the loop of check_user_presence goes on to iteration i
loop_continues(i) == i < TIMEOUT_ITERATIONS

\* a keepalive sent at the end of every wait
keepalive_due_always(keepalive_expired) == TRUE

\* line 444: a keepalive is sent when the wait ended because the alarm fired
keepalive_due(keepalive_expired) == keepalive_expired

\* check_user_presence returned `result`: the command processor answers and
\* process_message returns its bytes
Finish(result) ==
  \E bytes \in ProcessorResponses(result) :
    /\ bridge' = [NoBridge EXCEPT !.bytes = bytes]
    /\ Return(request.via, cbor_arm(request.message, bytes))

\* lines 452-466: LEDs off, buttons disabled, the result returned
Cleanup(keepalive_response, button_touched) ==
  /\ leds' = switch_off_leds
  /\ buttons_enabled' = FALSE
  /\ Finish(user_presence_result(keepalive_response, button_touched))

\* one more transmission of a keepalive, counted up to one past the most the
\* loop can send
Transmitted(count) == Min(count + 1, TIMEOUT_ITERATIONS + 2)

\* the loop with an index that never advances
Iterate_index_stuck(i, keepalive_response, button_touched) ==
  /\ leds' = blink_leds(0)
  /\ up' = [i |-> 0, button_touched |-> button_touched, keepalive_expired |-> FALSE,
            keepalive_response |-> keepalive_response, result |-> "none",
            keepalives |-> Transmitted(up.keepalives)]
  /\ pc' = "up_wait"
  /\ UNCHANGED <<buttons_enabled, bridge, response, out_packets>>

\* lines 448-450 and 411-420 after a keepalive transmission: iteration i starts,
\* or the loop is over
Iterate(i, keepalive_response, button_touched) ==
  IF loop_continues(i)
  THEN /\ leds' = blink_leds(i)
       /\ up' = [i |-> i, button_touched |-> button_touched, keepalive_expired |-> FALSE,
                 keepalive_response |-> keepalive_response, result |-> "none",
                 keepalives |-> Transmitted(up.keepalives)]
       /\ pc' = "up_wait"
       /\ UNCHANGED <<buttons_enabled, bridge, response, out_packets>>
  ELSE /\ up' = [up EXCEPT !.keepalive_response = keepalive_response,
                           !.button_touched = button_touched,
                           !.result = user_presence_result(keepalive_response,
                                                           button_touched),
                           !.keepalives = Transmitted(@)]
       /\ Cleanup(keepalive_response, button_touched)

\* line 394: the first keepalive; a cancel returns at once, before any button is
\* enabled, otherwise the buttons are enabled (lines 397-410) and the loop starts
UpNotify ==
  /\ pc = "up_notify"
  /\ \E status \in SendStatuses(request.message.cid) :
       LET r == send_keepalive_up_needed("MainHid", request.message.cid, status)
       IN  /\ last_status' = status
           /\ IF r # "Ok"
              THEN /\ up' = [UpIdle EXCEPT !.keepalive_response = r, !.result = r,
                                            !.keepalives = 1]
                   /\ Finish(r)
                   /\ UNCHANGED <<buttons_enabled, leds>>
              ELSE IF loop_continues(0)
              THEN /\ buttons_enabled' = TRUE
                   /\ leds' = blink_leds(0)
                   /\ up' = [UpIdle EXCEPT !.keepalives = 1]
                   /\ pc' = "up_wait"
                   /\ UNCHANGED <<bridge, response, out_packets>>
              ELSE /\ up' = [UpIdle EXCEPT !.keepalives = 1,
                                            !.result = user_presence_result("Ok", FALSE)]
                   /\ Cleanup("Ok", FALSE)
  /\ UNCHANGED <<now, envVars, wink_permission, hid, request, invoked, grant_before,
                 n_calls, n_ticks, since_grant>>

\* a button is pressed while its listener is enabled: in the wait of line 423 the
\* wait ends and the loop breaks; during a keepalive transmission the flag is set
ButtonPressed ==
  /\ buttons_enabled
  /\ ~up.button_touched
  /\ \/ /\ pc = "up_wait"
        /\ IF keepalive_due(up.keepalive_expired)
           THEN /\ up' = [up EXCEPT !.button_touched = TRUE]
                /\ pc' = "up_send"
                /\ UNCHANGED <<bridge, response, out_packets, buttons_enabled, leds>>
           ELSE /\ up' = [up EXCEPT !.button_touched = TRUE,
                                    !.result = user_presence_result(up.keepalive_response,
                                                                    TRUE)]
                /\ Cleanup(up.keepalive_response, TRUE)
     \/ /\ pc = "up_send"
        /\ up' = [up EXCEPT !.button_touched = TRUE]
        /\ UNCHANGED <<pc, bridge, response, out_packets, buttons_enabled, leds>>
  /\ UNCHANGED <<now, envVars, wink_permission, hid, request, invoked, grant_before,
                 last_status, n_calls, n_ticks, since_grant>>

\* the alarm of line 420 fires: the wait ends and a keepalive is to be sent
AlarmFired ==
  /\ pc = "up_wait"
  /\ up' = [up EXCEPT !.keepalive_expired = TRUE]
  /\ pc' = "up_send"
  /\ UNCHANGED <<now, envVars, wink_permission, hid, buttons_enabled, leds, request,
                 invoked, grant_before, bridge, last_status, response, out_packets,
                 n_calls, n_ticks, since_grant>>

\* lines 444-449: the keepalive transmission of an iteration ends
KeepaliveSent ==
  /\ pc = "up_send"
  /\ \E status \in SendStatuses(request.message.cid) :
       LET r == send_keepalive_up_needed("MainHid", request.message.cid, status)
       IN  /\ last_status' = status
           /\ IF up.button_touched \/ r # "Ok"
              THEN /\ up' = [up EXCEPT !.keepalive_response = r,
                                        !.result = user_presence_result(r, up.button_touched),
                                        !.keepalives = Transmitted(@)]
                   /\ Cleanup(r, up.button_touched)
              ELSE Iterate(up.i + 1, r, up.button_touched)
  /\ UNCHANGED <<now, envVars, wink_permission, hid, request, invoked, grant_before,
                 n_calls, n_ticks, since_grant>>

(***************************************************************************)
(* Specification.                                                          *)
(***************************************************************************)
Init ==
  /\ now \in StartTicks
  /\ clock_frequency \in ClockFrequencies
  /\ with_ctap1 \in BOOLEAN
  /\ wink_permission = None
  /\ hid = HidIdle
  /\ pc = "idle"
  /\ up = UpIdle
  /\ buttons_enabled = FALSE
  /\ leds = {}
  /\ request = NoRequest
  /\ invoked = FALSE
  /\ grant_before = "none"
  /\ bridge = NoBridge
  /\ last_status = NoStatus
  /\ response = None
  /\ out_packets = <<>>
  /\ n_calls = 0
  /\ n_ticks = 0
  /\ since_grant = 0
  /\ TAKEN = TRUE
  /\ storage = <<"ok">>
  /\ env = TRUE
  /\ held_timer = None
  /\ timed = NoTimed
  /\ checked = None
  /\ blink_pattern = 0
  /\ presence = "none"
  /\ waited = NoWait

Next ==
  \/ ProcessMessage
  \/ ProcessHidPacket
  \/ UpdateWinkTimeout
  \/ Tick
  \/ UpNotify
  \/ ButtonPressed
  \/ AlarmFired
  \/ KeepaliveSent

Spec == Init /\ [][Next]_vars

\* every armed alarm fires and every transmission ends (it has a timeout)
FairSpec ==
  Spec /\ WF_vars(UpNotify) /\ WF_vars(AlarmFired) /\ WF_vars(KeepaliveSent)

(***************************************************************************)
(* The clock on its own: src/env/tock/mod.rs                               *)
(***************************************************************************)
\* frequencies of the alarm driver: 1 kHz, an odd frequency near 32 kHz, 16 MHz
TimerFrequencies == {1000, 32769, 16000000}

\* durations asked of make_timer, around the bounds of the tick delta at
\* these frequencies
Durations == {0, 1, 5000, 255999, 256000, 262144, 8388607}

\* the counter at start: 0, half-way, and one tick before it wraps
TimerStartTicks == {0, HalfRange, TickRange - 1}

\* ticks the counter advances by while a timer is held: one tick, the timer's
\* own delta, half the counter's range
AdvanceSteps ==
  {1, HalfRange}
    \cup (IF IsSome(held_timer)
          THEN {wrapping_sub_u24(Unwrap(held_timer).end_tick, timed.start_tick)} \ {0}
          ELSE {})

\* TockClock::make_timer called with a duration
MakeTimer ==
  /\ pc = "idle"
  /\ env
  /\ \E milliseconds \in Durations :
       /\ timed' = [made |-> TRUE, start_tick |-> now, milliseconds |-> milliseconds,
                    elapsed |-> 0]
       /\ IF make_timer_panics(clock_frequency, milliseconds)
          THEN /\ pc' = "halted"
               /\ UNCHANGED held_timer
          ELSE /\ held_timer' = Some(make_timer(clock_frequency, now, milliseconds))
               /\ pc' = pc
  /\ checked' = None
  /\ UNCHANGED <<now, clock_frequency, hidVars, buttons_enabled, leds, n_ticks, TAKEN,
                 storage, env, blink_pattern, presence, waited>>

\* TockClock::check_timer called with the timer held: the timer is consumed and
\* the caller holds what comes back
CheckTimer ==
  /\ pc = "idle"
  /\ env
  /\ IsSome(held_timer)
  /\ checked' = Some([end_tick |-> Unwrap(held_timer).end_tick, cur_tick |-> now,
                      start_tick |-> timed.start_tick, elapsed |-> timed.elapsed,
                      result |-> check_timer(Unwrap(held_timer), now)])
  /\ held_timer' = check_timer(Unwrap(held_timer), now)
  /\ UNCHANGED <<now, clock_frequency, hidVars, pc, buttons_enabled, leds, n_ticks, TAKEN,
                 storage, env, timed, blink_pattern, presence, waited>>

\* the hardware counter advances while a timer is held
ClockAdvance ==
  /\ pc = "idle"
  /\ n_ticks < MaxAdvances
  /\ n_ticks' = n_ticks + 1
  /\ \E d \in AdvanceSteps :
       /\ now' = (now + d) % TickRange
       /\ timed' = IF timed.made THEN [timed EXCEPT !.elapsed = @ + d] ELSE timed
  /\ UNCHANGED <<clock_frequency, hidVars, pc, buttons_enabled, leds, TAKEN, storage, env,
                 held_timer, checked, blink_pattern, presence, waited>>

ClockInit ==
  /\ now \in TimerStartTicks
  /\ clock_frequency \in TimerFrequencies
  /\ with_ctap1 = FALSE
  /\ wink_permission = None
  /\ hid = HidIdle
  /\ pc = "idle"
  /\ up = UpIdle
  /\ buttons_enabled = FALSE
  /\ leds = {}
  /\ request = NoRequest
  /\ invoked = FALSE
  /\ grant_before = "none"
  /\ bridge = NoBridge
  /\ last_status = NoStatus
  /\ response = None
  /\ out_packets = <<>>
  /\ n_calls = 0
  /\ n_ticks = 0
  /\ since_grant = 0
  /\ TAKEN = TRUE
  /\ storage = <<"ok">>
  /\ env = TRUE
  /\ held_timer = None
  /\ timed = NoTimed
  /\ checked = None
  /\ blink_pattern = 0
  /\ presence = "none"
  /\ waited = NoWait

ClockNext ==
  \/ MakeTimer
  \/ CheckTimer
  \/ ClockAdvance

ClockSpec == ClockInit /\ [][ClockNext]_vars

(***************************************************************************)
(* The environment on its own: src/env/tock/mod.rs                         *)
(***************************************************************************)
\* TockStorage::new succeeds or fails
StorageResults == {"ok", "err"}

\* timeouts asked of wait_with_timeout
WaitTimeouts == {0, KEEPALIVE_DELAY_MS}

\* TAKEN set only once the storage was constructed
taken_only_on_success(result) == result = "ok"

\* line 116: fetch_or(true) sets TAKEN before the storage is constructed
taken_after_call(result) == TRUE

\* lines 113-118: the assertion on TAKEN, then TockStorage::new
take_storage(result) ==
  IF TAKEN
  THEN /\ storage' = Append(storage, "halted")
       /\ pc' = "halted"
       /\ UNCHANGED TAKEN
  ELSE /\ TAKEN' = taken_after_call(result)
       /\ storage' = Append(storage, result)
       /\ UNCHANGED pc

\* take_storage called on its own
TakeStorage ==
  /\ pc = "idle"
  /\ Len(storage) < MaxTakes
  /\ \E result \in StorageResults : take_storage(result)
  /\ Forget
  /\ UNCHANGED <<now, clock_frequency, callVars, buttons_enabled, leds, n_ticks, env,
                 held_timer, timed, checked, blink_pattern, presence, waited>>

\* TockEnv::new: take_storage().unwrap(), Store::new(..).ok().unwrap(), the fields
NewEnv ==
  /\ pc = "idle"
  /\ Len(storage) < MaxTakes
  /\ \E result \in StorageResults, store_ok \in BOOLEAN :
       IF TAKEN
       THEN take_storage(result) /\ UNCHANGED <<env, blink_pattern>>
       ELSE /\ TAKEN' = taken_after_call(result)
            /\ storage' = Append(storage, result)
            /\ IF result = "ok" /\ store_ok
               THEN env' = TRUE /\ blink_pattern' = 0 /\ UNCHANGED pc
               ELSE pc' = "halted" /\ UNCHANGED <<env, blink_pattern>>
  /\ Forget
  /\ UNCHANGED <<now, clock_frequency, callVars, buttons_enabled, leds, n_ticks, held_timer,
                 timed, checked, presence, waited>>

\* UserPresence::check_init
CheckInit ==
  /\ pc = "idle"
  /\ env
  /\ blink_pattern' = 0
  /\ presence' = "init"
  /\ waited' = NoWait
  /\ Forget
  /\ UNCHANGED <<now, clock_frequency, callVars, pc, buttons_enabled, leds, n_ticks, TAKEN,
                 storage, env, held_timer, timed, checked>>

\* UserPresence::wait_with_timeout up to the wait of line 152, or its early return
WaitWithTimeout ==
  /\ pc = "idle"
  /\ env
  /\ blink_pattern < MaxWaits
  /\ \E timeout \in WaitTimeouts :
       /\ waited' = [called |-> TRUE, timeout |-> timeout, button_touched |-> FALSE,
                     keepalive_expired |-> FALSE]
       /\ IF timeout = 0
          THEN /\ presence' = "Timeout"
               /\ UNCHANGED <<pc, leds, blink_pattern, buttons_enabled>>
          ELSE /\ leds' = blink_leds(blink_pattern)
               /\ blink_pattern' = blink_pattern + 1
               /\ buttons_enabled' = TRUE
               /\ pc' = "presence_wait"
               /\ presence' = "none"
  /\ Forget
  /\ UNCHANGED <<now, clock_frequency, callVars, n_ticks, TAKEN, storage, env, held_timer,
                 timed, checked>>

\* lines 173-179 with the two tests in the other order
wait_result_alarm_first(button_touched, keepalive_expired) ==
  IF keepalive_expired THEN "Timeout"
  ELSE IF button_touched THEN "Ok"
  ELSE "halted"

\* lines 173-179: what wait_with_timeout returns, from its two cells
wait_result(button_touched, keepalive_expired) ==
  IF button_touched THEN "Ok"
  ELSE IF keepalive_expired THEN "Timeout"
  ELSE "halted"

\* lines 152-181: yieldk_for has returned with the cells as the callbacks left
\* them; the alarm is stopped, the buttons are disabled, the result is returned
wait_returns(button_touched, keepalive_expired) ==
  /\ pc = "presence_wait"
  /\ waited' = [waited EXCEPT !.button_touched = button_touched,
                              !.keepalive_expired = keepalive_expired]
  /\ buttons_enabled' = FALSE
  /\ presence' = wait_result(button_touched, keepalive_expired)
  /\ pc' = IF wait_result(button_touched, keepalive_expired) = "halted" THEN "halted" ELSE "idle"
  /\ UNCHANGED <<now, clock_frequency, hidVars, leds, n_ticks, TAKEN, storage, env,
                 held_timer, timed, checked, blink_pattern>>

\* the wait of line 152 ends with a button press
WaitTouched == wait_returns(TRUE, FALSE)

\* the wait of line 152 ends with the alarm
WaitExpired == wait_returns(FALSE, TRUE)

\* the wait of line 152 ends with both callbacks delivered
WaitTouchedAndExpired == wait_returns(TRUE, TRUE)

\* UserPresence::check_complete
CheckComplete ==
  /\ pc = "idle"
  /\ env
  /\ leds' = switch_off_leds
  /\ presence' = "complete"
  /\ waited' = NoWait
  /\ Forget
  /\ UNCHANGED <<now, clock_frequency, callVars, pc, buttons_enabled, n_ticks, TAKEN,
                 storage, env, held_timer, timed, checked, blink_pattern>>

\* a Cbor command that may check user presence, called on the environment
ProcessCbor ==
  /\ pc = "idle"
  /\ env
  /\ n_calls < MaxWaits
  /\ n_calls' = n_calls + 1
  /\ grant_before' = GrantState
  /\ presence' = "none"
  /\ waited' = NoWait
  /\ LET message == Message(CidA, CMD_CBOR, <<>>)
     IN  /\ request' = [message |-> message, via |-> "message", packet |-> NoPacket]
         /\ process_message(message, "message")
  /\ UNCHANGED <<now, clock_frequency, with_ctap1, hid, n_ticks, TAKEN, storage, env,
                 held_timer, timed, checked, blink_pattern>>

\* the process starts: nothing taken, no environment
EnvInit ==
  /\ now \in StartTicks
  /\ clock_frequency \in ClockFrequencies
  /\ with_ctap1 = FALSE
  /\ wink_permission = None
  /\ hid = HidIdle
  /\ pc = "idle"
  /\ up = UpIdle
  /\ buttons_enabled = FALSE
  /\ leds = {}
  /\ request = NoRequest
  /\ invoked = FALSE
  /\ grant_before = "none"
  /\ bridge = NoBridge
  /\ last_status = NoStatus
  /\ response = None
  /\ out_packets = <<>>
  /\ n_calls = 0
  /\ n_ticks = 0
  /\ since_grant = 0
  /\ TAKEN = FALSE
  /\ storage = <<>>
  /\ env = FALSE
  /\ held_timer = None
  /\ timed = NoTimed
  /\ checked = None
  /\ blink_pattern = 0
  /\ presence = "none"
  /\ waited = NoWait

EnvNext ==
  \/ TakeStorage
  \/ NewEnv
  \/ CheckInit
  \/ WaitWithTimeout
  \/ WaitTouched
  \/ WaitExpired
  \/ WaitTouchedAndExpired
  \/ CheckComplete
  \/ ProcessCbor
  \/ UpNotify
  \/ ButtonPressed
  \/ AlarmFired
  \/ KeepaliveSent

EnvSpec == EnvInit /\ [][EnvNext]_vars

(***************************************************************************)
(* The packet path alone: a host interleaving packets of two channels      *)
(* through process_hid_packet, long enough for a reception on one channel  *)
(* to be interrupted by the other and then completed.                      *)
(***************************************************************************)
\* process_hid_packet called with the next packet of the interleaving
ReceivePacket ==
  /\ pc = "idle"
  /\ n_calls < MaxPackets
  /\ n_calls' = n_calls + 1
  /\ grant_before' = GrantState
  /\ \E packet \in Packets : process_hid_packet(packet)
  /\ UNCHANGED <<now, envVars, n_ticks>>

PacketNext ==
  \/ ReceivePacket
  \/ UpNotify
  \/ ButtonPressed
  \/ AlarmFired
  \/ KeepaliveSent

PacketSpec == Init /\ [][PacketNext]_vars

(***************************************************************************)
(* The wink grant left alone: Wink commands, renewals, and the counter     *)
(* running on for up to a whole turn of its 24 bits.                       *)
(***************************************************************************)
\* ticks the counter advances by: one tick, the wink duration, half its range
GrantTickSteps(frequency) == {1, delta_tick(frequency, WINK_TIMEOUT_DURATION), HalfRange}

\* process_message called with a Wink with empty payload
ProcessWink ==
  /\ pc = "idle"
  /\ n_calls < MaxCalls
  /\ n_calls' = n_calls + 1
  /\ grant_before' = GrantState
  /\ \E cid \in Cids :
       LET message == Message(cid, CMD_WINK, <<>>)
       IN  /\ request' = [message |-> message, via |-> "message", packet |-> NoPacket]
           /\ process_message(message, "message")
  /\ UNCHANGED <<now, envVars, hid, n_ticks>>

\* the hardware counter advances, by up to half its range at once
GrantTick ==
  /\ n_ticks < MaxGrantTicks
  /\ \E d \in GrantTickSteps(clock_frequency) :
       /\ now' = (now + d) % TickRange
       /\ since_grant' = IF IsSome(wink_permission) THEN since_grant + d ELSE 0
  /\ n_ticks' = n_ticks + 1
  /\ Forget
  /\ UNCHANGED <<envVars, wink_permission, hid, pc, buttons_enabled, leds, n_calls>>

GrantNext ==
  \/ ProcessWink
  \/ UpdateWinkTimeout
  \/ GrantTick

GrantSpec == Init /\ [][GrantNext]_vars

(***************************************************************************)
(* Properties.                                                             *)
(***************************************************************************)
\* a call that reached process_message has just returned
Returned == pc = "idle" /\ invoked /\ IsSome(response)

\* the message process_message was called with, and what it returned
Req == request.message
Resp == Unwrap(response)

\* the user-presence wait of a Cbor command is in progress
Busy == pc \in {"up_notify", "up_wait", "up_send"}

WinkRequest == Req.cmd = CMD_WINK /\ Req.payload = <<>>

\* C1: should_wink is true exactly while a grant exists and the current tick has
\* not passed its expiry: true from the grant until 5000 ms later, false one tick
\* after that, and false when there is no grant.
WinkLifecycle ==
  /\ (IsSome(wink_permission) /\ since_grant <= WinkTicks => should_wink)
  /\ (IsSome(wink_permission) /\ since_grant = WinkTicks + 1 => ~should_wink)
  /\ (wink_permission = None => ~should_wink)

\* C2: when process_message returns from any message other than a Wink with
\* empty payload, the permission is Waiting and should_wink is false, whatever
\* the permission was before.
RevokedByOtherMessages ==
  Returned /\ ~WinkRequest => wink_permission = None /\ ~should_wink

RevokedLiveGrant ==
  Returned /\ ~WinkRequest /\ grant_before = "live" /\ Req.cmd = CMD_CBOR
    /\ wink_permission = None

\* C3 as stated: a message answered with a protocol error leaves the wink
\* permission exactly as it was.
ErrorReturned == Returned /\ Resp.cmd = CMD_ERROR

ErrorLeavesPermission ==
  [][ErrorReturned' /\ n_calls' = n_calls + 1 => wink_permission' = wink_permission]_vars

\* C3 as amended: a message answered with a protocol error revokes the wink
\* permission like any other message; a grant that was active is gone.
ErrorRevokesPermission == ErrorReturned => wink_permission = None

ErrorRevokedLiveGrant ==
  ErrorReturned /\ grant_before = "live" /\ Req.cmd = CMD_WINK /\ wink_permission = None

\* C4: every call of process_message returns, with exactly one response
\* message, also when a Cbor command waits for user presence.
ExactlyOneResponse ==
  /\ [](pc = "idle" /\ invoked => IsSome(response))
  /\ [](pc # "idle" => response = None)
  /\ ((pc # "idle") ~> (pc = "idle" /\ invoked /\ IsSome(response)))

ReturnedAfterFullWait ==
  Returned /\ Req.cmd = CMD_CBOR /\ up.i = TIMEOUT_ITERATIONS - 1 /\ up.keepalive_expired
    /\ ~up.button_touched /\ up.keepalive_response = "Ok"

\* C5: a Wink with empty payload grants the permission until 5000 ms after the
\* current tick and is returned unchanged; a Wink with a payload is answered
\* InvalidLen on its channel and grants nothing.
WinkGrantsOrRejects ==
  Returned /\ Req.cmd = CMD_WINK =>
    IF Req.payload = <<>>
    THEN /\ wink_permission = Some([end_tick |-> (now + WinkTicks) % TickRange])
         /\ Resp = Req
    ELSE /\ Resp = Message(Req.cid, CMD_ERROR, <<ERR_INVALID_LEN>>)
         /\ wink_permission = None

WinkGrantedAcrossWrap ==
  Returned /\ WinkRequest /\ IsSome(wink_permission)
    /\ Unwrap(wink_permission).end_tick < now

\* C6 as stated: process_message answers an unsupported or vendor opcode with
\* InvalidCmd on the request's channel.
UnsupportedCommands == {cmd \in Commands : cmd >= CMD_VENDOR_FIRST}

SinglePacket(packet) == packet[5] >= 128 /\ packet[6] * 256 + packet[7] <= HID_PACKET_SIZE - 7

TransportPassedThrough ==
  /\ (Returned /\ Req.cmd \in TransportCommands => Resp = Req)
  /\ (Returned /\ request.via = "packet" /\ Req.cmd = CMD_PING /\ SinglePacket(request.packet)
        => out_packets = <<request.packet>>)

PingEchoed ==
  Returned /\ request.via = "packet" /\ Req = Message(CidA, CMD_PING, <<153, 153>>)
    /\ out_packets = <<request.packet>>

\* C8: a lone continuation packet, and a Cancel initialization packet of length
\* 0, received while no reception is in progress yield no outgoing packet, and
\* process_message is not invoked.
SilentKind(packet) ==
  \/ packet[5] < 128
  \/ packet[5] = 128 + CMD_CANCEL /\ packet[6] = 0 /\ packet[7] = 0

SilentPackets ==
  [][(pc = "idle" /\ ~hid.receiving /\ n_calls' = n_calls + 1 /\ request'.via = "packet"
        /\ SilentKind(request'.packet))
     => (out_packets' = <<>> /\ ~invoked' /\ response' = None
           /\ wink_permission' = wink_permission /\ hid' = hid)]_vars

CancelDropped ==
  /\ pc = "idle" /\ request.via = "packet" /\ ~invoked /\ out_packets = <<>>
  /\ request.packet = InitPacket(CidA, CMD_CANCEL, 0, <<>>)
  /\ IsSome(wink_permission)

\* C9: a Msg message is answered InvalidCmd without legacy support; with it, the
\* response is under the Msg opcode on the request's channel and carries the
\* bridge's bytes followed by the big-endian success status, or the big-endian
\* status alone when the bridge failed.
LegacyBridgeResponse ==
  Returned /\ Req.cmd = CMD_MSG =>
    IF ~with_ctap1
    THEN Resp = Message(Req.cid, CMD_ERROR, <<ERR_INVALID_CMD>>)
    ELSE /\ Resp.cid = Req.cid
         /\ Resp.cmd = CMD_MSG
         /\ Resp.payload = IF bridge.ok
                           THEN bridge.bytes \o <<SW_SUCCESS \div 256, SW_SUCCESS % 256>>
                           ELSE <<bridge.code \div 256, bridge.code % 256>>

LegacyBridgeSucceeded ==
  Returned /\ Req.cmd = CMD_MSG /\ with_ctap1 /\ bridge.ok /\ bridge.bytes = <<5, 4>>

\* C10: while a Cbor command is processed no packet reaches the reassembler or
\* the dispatcher and nothing is returned; only a Cancel initialization packet
\* on the command's channel, seen during a keepalive transmission, cancels it;
\* the response carries the processor's bytes under Cbor on the request's channel.
CancelOnChannel(status, endpoint, cid) ==
  /\ status.kind = "Received"
  /\ status.endpoint = endpoint
  /\ SubSeq(status.packet, 1, 4) = cid
  /\ status.packet[5] = 128 + CMD_CANCEL

CborAtomic ==
  /\ [][Busy => /\ hid' = hid
                /\ n_calls' = n_calls
                /\ request' = request
                /\ wink_permission' = wink_permission
                /\ (Busy' => response' = None /\ out_packets' = <<>>)]_vars
  /\ [](up.keepalive_response = "Cancelled"
          => CancelOnChannel(last_status, "MainHid", Req.cid))
  /\ [](Returned /\ Req.cmd = CMD_CBOR => Resp = Message(Req.cid, CMD_CBOR, bridge.bytes))

ForeignPacketIgnored ==
  Returned /\ Req.cmd = CMD_CBOR /\ last_status.kind = "Received"
    /\ ~CancelOnChannel(last_status, "MainHid", Req.cid)
    /\ up.keepalive_response = "Ok" /\ up.keepalive_expired

\* the last check_timer call, and the delta of the timer it was given
Check == Unwrap(checked)
CheckedDelta == (Check.end_tick - Check.start_tick) % TickRange

\* check_timer's answer: the branch of line 523 returns None, not elapsed
NotElapsed(result) == result = None

\* the decision of check_timer is the comparison of the wrapped difference
DecidedByWrappedDifference ==
  NotElapsed(Check.result) <=> (Check.end_tick - Check.cur_tick) % TickRange < HalfRange

\* C11 as stated: a timer with delta < 2^23 is reported not elapsed while the
\* true elapsed ticks are at most delta and elapsed whenever they exceed delta,
\* for every start tick; the decision is (end_tick - current_tick) mod 2^24 < 2^23.
ElapsedWheneverPastDelta ==
  IsSome(checked) =>
    /\ (Check.elapsed <= CheckedDelta => NotElapsed(Check.result))
    /\ (Check.elapsed > CheckedDelta => ~NotElapsed(Check.result))
    /\ DecidedByWrappedDifference

\* C11 as amended: the timer is reported not elapsed while the true elapsed
\* ticks are at most delta, and elapsed while they exceed delta by at most 2^23
\* ticks; the decision is (end_tick - current_tick) mod 2^24 < 2^23.
ElapsedWithinHalfRange ==
  IsSome(checked) =>
    /\ (Check.elapsed <= CheckedDelta => NotElapsed(Check.result))
    /\ (Check.elapsed > CheckedDelta /\ Check.elapsed <= CheckedDelta + HalfRange
          => ~NotElapsed(Check.result))
    /\ DecidedByWrappedDifference

RunningAcrossWrap ==
  /\ IsSome(checked)
  /\ Check.start_tick = TickRange - 1
  /\ Check.end_tick < Check.start_tick
  /\ Check.cur_tick < Check.start_tick
  /\ Check.elapsed > 0 /\ Check.elapsed <= CheckedDelta
  /\ NotElapsed(Check.result)

\* the upper 16 bits and beyond of a * b, the smaller factor below 2^15; 65536
\* stands for a product of two factors of 2^16 or more
HighWord(a, b) ==
  LET lo == Min(a, b)
      hi == IF a < b THEN b ELSE a
  IN  IF lo >= 65536 THEN 65536
      ELSE (hi \div 65536) * lo + ((hi % 65536) * lo) \div 65536

\* C12: make_timer halts exactly when duration_ms * (frequency / 2) overflows
\* the machine word or, divided by 500, reaches 2^23; otherwise it returns a
\* timer whose end tick is the start tick plus that delta, modulo 2^24.
MakeTimerHaltsOrReturns ==
  timed.made =>
    LET half == clock_frequency \div 2
        fresh == pc = "idle" /\ timed.elapsed = 0 /\ checked = None
    IN  /\ pc = "halted" <=> HighWord(half, timed.milliseconds) >= 64000
        /\ fresh => /\ IsSome(held_timer)
                    /\ (Unwrap(held_timer).end_tick - timed.start_tick) % TickRange < HalfRange
        /\ fresh /\ HighWord(half, timed.milliseconds) < 32768
             => Unwrap(held_timer).end_tick
                  = (timed.start_tick + (half * timed.milliseconds) \div 500) % TickRange

HaltedAtHalfRange ==
  /\ pc = "halted"
  /\ clock_frequency = 32769
  /\ timed.made /\ timed.milliseconds = 256000

\* the call's check_user_presence has returned
WaitReturned == Returned /\ up.result # "none"

\* a step in which a keepalive transmission ends
TransmissionEnds == pc \in {"up_notify", "up_send"} /\ pc' # pc

\* C13: a Cancel initialization packet on the active channel and endpoint,
\* received while a keepalive is transmitted, ends check_user_presence with
\* Cancelled at once: no other iteration starts and no other keepalive is sent.
CancelEndsWait ==
  /\ [][TransmissionEnds /\ CancelOnChannel(last_status', "MainHid", Req.cid)
          => /\ pc' = "idle"
             /\ up'.result = "Cancelled"
             /\ up'.i = up.i
             /\ up'.keepalives = up.keepalives + 1]_vars
  /\ [](up.result = "Cancelled" => pc = "idle" /\ up.keepalives <= up.i + 2)

CancelledMidWait ==
  WaitReturned /\ up.result = "Cancelled" /\ up.i = 1 /\ up.keepalive_expired
    /\ up.keepalives = 3

\* C14 as stated: whenever a touch is observed before the wait returns,
\* check_user_presence returns Presence-confirmed.
TouchAlwaysConfirms == WaitReturned /\ up.button_touched => up.result = "Ok"

\* C14 as amended: a touch observed before the wait returns ends it with
\* Presence-confirmed, unless the touch is observed during a keepalive
\* transmission that receives a Cancel on the active channel: then with Cancelled.
TouchConfirmsUnlessCancelled ==
  /\ [][pc = "up_wait" /\ ~up.button_touched /\ up'.button_touched
          => pc' = "idle" /\ up'.result = "Ok"]_vars
  /\ [](WaitReturned /\ up.button_touched =>
          IF up.keepalive_response = "Ok"
          THEN up.result = "Ok"
          ELSE /\ up.result = "Cancelled"
               /\ up.keepalive_expired
               /\ CancelOnChannel(last_status, "MainHid", Req.cid))

TouchedWhileTransmitting ==
  WaitReturned /\ up.button_touched /\ up.keepalive_expired /\ up.result = "Ok"
    /\ last_status.kind = "Received"

\* C18: an inbound packet received while a keepalive is transmitted that is not
\* a Cancel initialization packet on the active channel and endpoint is ignored:
\* nothing is answered to it, the touch flag and the keepalive result are as
\* they were, and the wait goes on or ends as the state before it decides.
IgnoredPacket(status, cid) ==
  status.kind = "Received" /\ ~CancelOnChannel(status, "MainHid", cid)

NextIteration == IF pc = "up_notify" THEN 0 ELSE up.i + 1

UnrelatedPacketsIgnored ==
  [][TransmissionEnds /\ IgnoredPacket(last_status', Req.cid)
       => /\ up'.keepalive_response = "Ok"
          /\ up'.button_touched = up.button_touched
          /\ hid' = hid
          /\ wink_permission' = wink_permission
          /\ IF up.button_touched
             THEN pc' = "idle" /\ up'.result = "Ok"
             ELSE IF NextIteration < TIMEOUT_ITERATIONS
             THEN /\ pc' = "up_wait"
                  /\ up'.i = NextIteration
                  /\ up'.result = "none"
                  /\ response' = None
                  /\ out_packets' = <<>>
             ELSE pc' = "idle" /\ up'.result = "Timeout"
          /\ (pc' = "idle"
                => Unwrap(response') = Message(Req.cid, CMD_CBOR, bridge'.bytes))]_vars

InitPacketIgnored ==
  /\ pc = "up_wait"
  /\ up.i = 1
  /\ last_status.kind = "Received"
  /\ last_status.endpoint = "MainHid"
  /\ SubSeq(last_status.packet, 1, 4) = Req.cid
  /\ last_status.packet[5] = 128 + CMD_PING

\* every iteration of the loop ran to its end: the last one's alarm fired
AllIterationsRan ==
  IF TIMEOUT_ITERATIONS = 0
  THEN up.i = 0 /\ ~up.keepalive_expired
  ELSE up.i = TIMEOUT_ITERATIONS - 1 /\ up.keepalive_expired

\* C19: if every armed alarm fires, the user-presence wait returns, after at
\* most TIMEOUT_ITERATIONS iterations; it returns Timed-out exactly when all
\* iterations ran with no touch and no cancel; Presence-confirmed, Timed-out
\* and Cancelled are final.
WaitTerminates ==
  /\ (Busy ~> WaitReturned)
  /\ [](Busy => up.i < TIMEOUT_ITERATIONS /\ up.result = "none")
  /\ [](WaitReturned =>
          /\ up.result \in {"Ok", "Timeout", "Cancelled"}
          /\ up.i < TIMEOUT_ITERATIONS
          /\ (up.result = "Timeout"
                <=> AllIterationsRan /\ ~up.button_touched /\ up.keepalive_response = "Ok"))
  /\ [][up.result # "none" /\ n_calls' = n_calls
          => pc' = "idle" /\ up'.result \in {up.result, "none"}]_vars

TimedOut ==
  WaitReturned /\ up.result = "Timeout" /\ up.keepalives = TIMEOUT_ITERATIONS + 1
    /\ last_status.kind = "Timeout"

PresenceReturned == pc = "idle" /\ presence \in {"Ok", "Timeout"}

\* check_user_presence returned from its first keepalive, before the loop
CancelledAtFirstKeepalive == up.result = "Cancelled" /\ up.keepalives = 1

\* C15 as stated: when check_user_presence returns, and when wait_with_timeout
\* returns, no button listener is enabled and all LEDs are off.
ReleasedAtEveryReturn ==
  /\ (WaitReturned => ~buttons_enabled /\ leds = {})
  /\ (PresenceReturned => ~buttons_enabled /\ leds = {})

\* C15 as amended: when check_user_presence returns no button listener is
\* enabled, and all LEDs are off unless it was cancelled on the first keepalive,
\* where it leaves buttons and LEDs as they were; when wait_with_timeout returns
\* no button listener is enabled, and the LEDs are all off once check_complete
\* has run.
ReleasedButLedsUntilComplete ==
  /\ [](WaitReturned => ~buttons_enabled)
  /\ [](WaitReturned /\ ~CancelledAtFirstKeepalive => leds = {})
  /\ [][pc = "up_notify" /\ pc' = "idle" /\ up'.result = "Cancelled"
          => leds' = leds /\ buttons_enabled' = buttons_enabled]_vars
  /\ [](PresenceReturned => ~buttons_enabled)
  /\ [](presence = "complete" => ~buttons_enabled /\ leds = {})
  /\ [][pc = "presence_wait" /\ pc' = "idle" => leds' = leds]_vars

LedsLeftOn == PresenceReturned /\ presence = "Ok" /\ leds # {} /\ ~buttons_enabled

\* C16: the first call of take_storage runs the storage's constructor, whether
\* that succeeds or fails; every later call, from take_storage or TockEnv::new,
\* halts without a value.
StorageTakenOnce ==
  /\ \A i \in 1..Len(storage) :
       IF i = 1 THEN storage[i] \in StorageResults
       ELSE storage[i] = "halted" /\ pc = "halted"
  /\ (storage # <<>> => TAKEN)
  /\ (env => storage[1] = "ok")

SecondTakeAfterError == storage = <<"err", "halted">> /\ pc = "halted" /\ ~env

\* the packet of the call just made, read from its bytes
PacketChannel == SubSeq(request.packet, 1, 4)
PacketIsInit == request.packet[5] >= 128
PacketData == SubSeq(request.packet, IF PacketIsInit THEN 8 ELSE 6, HID_PACKET_SIZE)

\* a packet has just been handed to process_hid_packet while a reception was open
PacketWhileReceiving == n_calls' = n_calls + 1 /\ hid.receiving

DeliveredAfterBusy ==
  n_calls = MaxPackets /\ Returned /\ ~hid.receiving /\ Req = Message(CidA, CMD_PING, LongPayload)

\* update_wink_timeout has just returned
Renewed == pc = "idle" /\ pc' = "idle" /\ n_calls' = n_calls /\ n_ticks' = n_ticks

\* an empty-payload Wink has just been answered while an earlier grant existed
WinkedAgain ==
  /\ IsSome(wink_permission)
  /\ n_calls' = n_calls + 1
  /\ pc' = "idle"
  /\ request'.message.cmd = CMD_WINK
  /\ request'.message.payload = <<>>

\* the one grant a renewal or a Wink at the current tick leaves
FreshGrant == Some([end_tick |-> (now + WinkTicks) % TickRange])

\* the part of C21 about the stored grant: a renewal or a second Wink replaces
\* the permission with one timer made at the tick of the call
GrantReplaced ==
  [][(Renewed \/ WinkedAgain) => wink_permission' = FreshGrant /\ since_grant' = 0]_vars

\* C21: granting overwrites any prior grant. After update_wink_timeout at tick T,
\* whatever the permission was, the permission is one timer expiring at
\* T + 5000 ms and should_wink is true from T until then; a second empty-payload
\* Wink at T2 likewise leaves a single grant expiring at T2 + 5000 ms.
GrantOverwrites ==
  /\ [][Renewed => wink_permission' = FreshGrant /\ since_grant' = 0 /\ should_wink']_vars
  /\ [][WinkedAgain => wink_permission' = FreshGrant /\ since_grant' = 0]_vars
  /\ [](IsSome(wink_permission) /\ since_grant <= WinkTicks => should_wink)

\* floor(milliseconds * half / 500), the quotient taken by parts of the duration
ExactDelta(half, milliseconds) ==
  half * (milliseconds \div 500) + (half * (milliseconds % 500)) \div 500

\* C22: a timer make_timer returned has end_tick = (start_tick + delta) mod 2^24
\* with delta = floor(duration_ms * floor(frequency / 2) / 500): end_tick lies in
\* [0, 2^24) and (end_tick - start_tick) mod 2^24 is delta, wherever the counter
\* was when the timer was made.
EndTickIsStartPlusDelta ==
  timed.made /\ pc = "idle" =>
    LET delta == ExactDelta(clock_frequency \div 2, timed.milliseconds)
    IN  /\ (timed.elapsed = 0 /\ checked = None => IsSome(held_timer))
        /\ (IsSome(held_timer) =>
              /\ Unwrap(held_timer).end_tick \in 0..(TickRange - 1)
              /\ Unwrap(held_timer).end_tick = (timed.start_tick + delta) % TickRange
              /\ (Unwrap(held_timer).end_tick - timed.start_tick) % TickRange = delta)

EndTickWrapped ==
  /\ pc = "idle"
  /\ clock_frequency = 32769
  /\ timed.made /\ timed.milliseconds = 255999 /\ timed.start_tick = TickRange - 1
  /\ held_timer = Some([end_tick |-> 8388574])

\* wait_with_timeout has just been called with a timeout of 0
ZeroTimeoutCall ==
  /\ pc = "idle"
  /\ n_calls' = n_calls
  /\ storage' = storage
  /\ waited'.called
  /\ waited'.timeout = 0

\* C23: wait_with_timeout returns Ok exactly when a button press was seen before
\* it returned, also when the alarm fired as well, and Timeout otherwise; it
\* leaves its wait only after a press or the alarm; with a timeout of 0 it
\* returns Timeout at once, with no button enabled, no LED changed and
\* blink_pattern as it was.
OkExactlyWhenPressed ==
  /\ [](PresenceReturned /\ waited.called /\ waited.timeout # 0 =>
          /\ (waited.button_touched \/ waited.keepalive_expired)
          /\ (presence = "Ok" <=> waited.button_touched)
          /\ (presence = "Timeout" <=> ~waited.button_touched))
  /\ [][pc = "presence_wait" /\ pc' # pc =>
          /\ pc' = "idle"
          /\ (waited'.button_touched \/ waited'.keepalive_expired)
          /\ presence' \in {"Ok", "Timeout"}]_vars
  /\ [](pc = "presence_wait" =>
          waited.called /\ waited.timeout # 0 /\ presence = "none"
            /\ ~waited.button_touched /\ ~waited.keepalive_expired)
  /\ [][ZeroTimeoutCall =>
          /\ pc' = "idle"
          /\ presence' = "Timeout"
          /\ ~buttons_enabled'
          /\ buttons_enabled' = buttons_enabled
          /\ leds' = leds
          /\ blink_pattern' = blink_pattern]_vars

PressWonOverAlarm ==
  /\ PresenceReturned
  /\ presence = "Ok"
  /\ waited.timeout = KEEPALIVE_DELAY_MS
  /\ waited.button_touched
  /\ waited.keepalive_expired

\* a wait with a timeout of 0 returned while LEDs of an earlier wait were on
ZeroTimeoutReturned ==
  PresenceReturned /\ waited.called /\ waited.timeout = 0 /\ leds # {} /\ blink_pattern = 1

\* the counter advanced while the grant was left alone
GrantLeftAlone ==
  IsSome(wink_permission) /\ wink_permission' = wink_permission /\ since_grant' > since_grant

\* C24: a grant left alone, once should_wink has answered false, answers false
\* at every later tick, however far the counter runs on or wraps.
ExpiredStaysExpired ==
  [][GrantLeftAlone /\ ~should_wink => ~should_wink']_vars

\* the grant's timer reads as not elapsed again, more than half the counter's
\* range after its expiry
NotElapsedAgain ==
  /\ IsSome(wink_permission)
  /\ since_grant > WinkTicks + HalfRange
  /\ has_elapsed(Unwrap(wink_permission)) = None

====
